---- MODULE Spec2Model ----
(***************************************************************************)
(* udp-procfs-exporter: process discovery over /proc (findPIDByName,       *)
(* walkProcFSStatus), the socket-table parser (parseProcfsNetFile) and the *)
(* sampling loop (watchUDPBuffers).                                        *)
(*                                                                         *)
(* Go strings are modelled as sequences of one-character strings, so that  *)
(* slicing, splitting and number parsing are computed, not assumed.        *)
(***************************************************************************)
EXTENDS Integers, Sequences, FiniteSets, TLC

VARIABLES
    pc,              \* position of the main goroutine
    args,            \* os.Args
    procfs,          \* the entries filepath.Walk("/proc") hands to the callback, in scan order
    walkIdx,         \* number of entries the callback has been invoked on
    walkErr,         \* the error filepath.Walk returned ("nil", "err", "EOF")
    targetProcName,  \* package variable targetProcName
    targetPID,       \* package variable targetPID
    httpStarted,     \* go serveHTTP(...) has been issued
    lastDropped,     \* watchUDPBuffers parameter lastDropped
    lastDropped6,    \* watchUDPBuffers parameter lastDropped6
    queuedUDP,       \* locals of watchUDPBuffers
    droppedUDP,
    queuedUDP6,
    droppedUDP6,
    diff,
    label,
    udpBufferQueued, \* gauge vector, by protocol label
    udpBufferDropped,\* counter vector, by protocol label
    ticks,           \* number of loop iterations started
    parsed,          \* history: what parseProcfsNetFile returned in the current tick, by label
    hist,            \* history: one record per reconcile of each label
    input,           \* parser harness: the file handed to parseProcfsNetFile
    output,          \* parser harness: what parseProcfsNetFile returned
    scraped          \* metrics reader: the counter value last read, by protocol label

vars == <<pc, args, procfs, walkIdx, walkErr, targetProcName, targetPID,
          httpStarted, lastDropped, lastDropped6, queuedUDP, droppedUDP,
          queuedUDP6, droppedUDP6, diff, label, udpBufferQueued,
          udpBufferDropped, ticks, parsed, hist, input, output, scraped>>

mainVars == <<pc, args, procfs, walkIdx, walkErr, targetProcName, targetPID, httpStarted>>
mainRest == <<args, procfs, walkIdx, walkErr, targetProcName, targetPID, httpStarted>>
loopVars == <<lastDropped, lastDropped6, queuedUDP, droppedUDP, queuedUDP6,
              droppedUDP6, diff, label, udpBufferQueued, udpBufferDropped,
              ticks, parsed, hist>>
harnessVars == <<input, output, scraped>>

(***************************************************************************)
(* Bounds                                                                  *)
(***************************************************************************)
MaxTicks == 4
MaxRows == 2
MaxEntries == 3
MaxServeTicks == 2

(***************************************************************************)
(* Strings                                                                 *)
(***************************************************************************)
RECURSIVE Concat(_)
Concat(ss) == IF ss = <<>> THEN <<>> ELSE Head(ss) \o Concat(Tail(ss))

\* strings.Join(fs, " ")
RECURSIVE JoinSp(_)
JoinSp(fs) ==
    IF fs = <<>> THEN <<>>
    ELSE IF Len(fs) = 1 THEN fs[1]
    ELSE fs[1] \o <<" ">> \o JoinSp(Tail(fs))

HasPrefixAt(s, sub, i) ==
    /\ i + Len(sub) - 1 <= Len(s)
    /\ \A k \in 1..Len(sub) : s[i + k - 1] = sub[k]

\* strings.Contains
Contains(s, sub) == \E i \in 1..(Len(s) + 1) : HasPrefixAt(s, sub, i)

\* strings.Count for a one-character separator
Count(s, c) == Cardinality({i \in 1..Len(s) : s[i] = c})

\* strings.LastIndex / bytes.IndexByte, as Go's 0-based index, -1 when absent
LastIndex(s, c) ==
    IF \E i \in 1..Len(s) : s[i] = c
    THEN (CHOOSE i \in 1..Len(s) : s[i] = c /\ \A j \in (i+1)..Len(s) : s[j] # c) - 1
    ELSE -1

IndexByte(s, c) ==
    IF \E i \in 1..Len(s) : s[i] = c
    THEN (CHOOSE i \in 1..Len(s) : s[i] = c /\ \A j \in 1..(i-1) : s[j] # c) - 1
    ELSE -1

\* Go slice expression s[lo:hi] with 0-based bounds; the caller checks the bounds
Slice(s, lo, hi) == SubSeq(s, lo + 1, hi)
SliceOK(s, lo, hi) == 0 <= lo /\ lo <= hi /\ hi <= Len(s)

\* strings.Fields: split around runs of white space, no empty fields
RECURSIVE FieldsAcc(_, _, _)
FieldsAcc(s, cur, acc) ==
    IF s = <<>> THEN (IF cur = <<>> THEN acc ELSE Append(acc, cur))
    ELSE IF Head(s) \in {" ", "\t"}
         THEN FieldsAcc(Tail(s), <<>>, IF cur = <<>> THEN acc ELSE Append(acc, cur))
         ELSE FieldsAcc(Tail(s), Append(cur, Head(s)), acc)
Fields(s) == FieldsAcc(s, <<>>, <<>>)

\* strings.Split(s, sep) for a one-character separator: empty parts are kept
RECURSIVE SplitAcc(_, _, _, _)
SplitAcc(s, sep, cur, acc) ==
    IF s = <<>> THEN Append(acc, cur)
    ELSE IF Head(s) = sep
         THEN SplitAcc(Tail(s), sep, <<>>, Append(acc, cur))
         ELSE SplitAcc(Tail(s), sep, Append(cur, Head(s)), acc)
Split(s, sep) == SplitAcc(s, sep, <<>>, <<>>)

(***************************************************************************)
(* strconv                                                                 *)
(***************************************************************************)
MaxInt32 == 2147483647

DigitVal(c) ==
    CASE c = "0" -> 0 [] c = "1" -> 1 [] c = "2" -> 2 [] c = "3" -> 3
      [] c = "4" -> 4 [] c = "5" -> 5 [] c = "6" -> 6 [] c = "7" -> 7
      [] c = "8" -> 8 [] c = "9" -> 9
      [] c \in {"a", "A"} -> 10 [] c \in {"b", "B"} -> 11
      [] c \in {"c", "C"} -> 12 [] c \in {"d", "D"} -> 13
      [] c \in {"e", "E"} -> 14 [] c \in {"f", "F"} -> 15
      [] OTHER -> 99

\* The magnitude of a digit string, or -1 once it exceeds limit (computed
\* without ever forming a number above limit).
RECURSIVE DigitsVal(_, _, _, _)
DigitsVal(s, base, limit, acc) ==
    IF s = <<>> THEN acc
    ELSE IF acc = -1 \/ acc > (limit - DigitVal(Head(s))) \div base
         THEN DigitsVal(Tail(s), base, limit, -1)
         ELSE DigitsVal(Tail(s), base, limit, acc * base + DigitVal(Head(s)))

\* body spells limit + 1, the magnitude of the most negative value
IsMinMagnitude(body, base, limit) ==
    LET carry == (limit % base) + 1 = base
        front == IF carry THEN (limit \div base) + 1 ELSE limit \div base
        last  == IF carry THEN 0 ELSE (limit % base) + 1
    IN  /\ Len(body) >= 2
        /\ DigitsVal(SubSeq(body, 1, Len(body) - 1), base, limit, 0) = front
        /\ DigitVal(body[Len(body)]) = last

\* strconv.ParseInt(s, 16, 32) and strconv.Atoi share the shape: optional
\* sign, at least one digit, every digit below the base, the value inside the
\* range.  Returns [val, err]; on a range error val is the nearest bound.
ParseSigned(s, base, max) ==
    LET neg    == s # <<>> /\ Head(s) = "-"
        signed == s # <<>> /\ Head(s) \in {"-", "+"}
        body   == IF signed THEN Tail(s) ELSE s
        syntax == body # <<>> /\ \A i \in 1..Len(body) : DigitVal(body[i]) < base
        mag    == DigitsVal(body, base, max, 0)
    IN  IF ~syntax THEN [val |-> 0, err |-> TRUE]
        ELSE IF mag # -1 THEN [val |-> IF neg THEN 0 - mag ELSE mag, err |-> FALSE]
        ELSE IF ~neg THEN [val |-> max, err |-> TRUE]
        ELSE [val |-> (0 - max) - 1, err |-> ~IsMinMagnitude(body, base, max)]

\* (variant: a value out of range is cut to its low 31 bits, here 0, without error)
ParseInt16_32_Truncate(s) ==
    LET r == ParseSigned(s, 16, MaxInt32)
    IN  IF r.err /\ r.val # 0 THEN [val |-> 0, err |-> FALSE] ELSE r
ParseInt16_32(s) == ParseSigned(s, 16, MaxInt32)

\* int is modelled at 32 bits (a 32-bit build: strconv.IntSize = 32)
MaxInt == 2147483647
Atoi(s) == ParseSigned(s, 10, MaxInt)

\* strconv.Itoa
DigitChar(d) == <<"0", "1", "2", "3", "4", "5", "6", "7", "8", "9">>[d + 1]
RECURSIVE ItoaNat(_)
ItoaNat(n) == IF n < 10 THEN <<DigitChar(n)>> ELSE Append(ItoaNat(n \div 10), DigitChar(n % 10))
Itoa(n) == IF n < 0 THEN <<"-">> \o ItoaNat(0 - n) ELSE ItoaNat(n)

(***************************************************************************)
(* The socket-table parser, parseProcfsNetFile                             *)
(***************************************************************************)
\* the header check of the scan loop
SkipHeader(n) == n < 1

\* strings.Split(fields[4], ":")[1], given the parts of fields[4]
QueueElem_First(parts) == parts[1]
QueueElem(parts) == parts[2]

\* the two error returns: both sums are dropped
ErrReturn_Partial(queued, dropped, exit) ==
    [queued |-> queued, dropped |-> dropped, exit |-> exit]
ErrReturn(queued, dropped, exit) ==
    [queued |-> 0, dropped |-> 0, exit |-> exit]

Panic == [queued |-> 0, dropped |-> 0, exit |-> "panic"]

\* The scan loop over the lines still unread; n counts the lines read so far.
\* exit names the statement that ended the call: "return" (the final return),
\* "queued" / "dropped" (the error returns), "panic" (index out of range).
RECURSIVE ScanLines(_, _, _, _)
ScanLines(lines, n, queued, dropped) ==
    IF lines = <<>> THEN [queued |-> queued, dropped |-> dropped, exit |-> "return"]
    ELSE IF SkipHeader(n) THEN ScanLines(Tail(lines), n + 1, queued, dropped)
    ELSE
      LET fields == Fields(Head(lines))
          parts  == Split(fields[5], ":")
          queuedLine  == ParseInt16_32(QueueElem(parts))
          droppedLine == Atoi(fields[13])
      IN  IF Len(fields) < 5 THEN Panic
          ELSE IF Len(parts) < 2 THEN Panic
          ELSE IF queuedLine.err
               THEN ErrReturn(queued + queuedLine.val, dropped, "queued")
          ELSE IF Len(fields) < 13 THEN Panic
          ELSE IF droppedLine.err
               THEN ErrReturn(queued + queuedLine.val, dropped + droppedLine.val, "dropped")
          ELSE ScanLines(Tail(lines), n + 1,
                         queued + queuedLine.val, dropped + droppedLine.val)

\* file: [open |-> whether os.Open succeeds, lines |-> the lines the scanner yields]
parseProcfsNetFile(file) ==
    IF ~file.open THEN [queued |-> 0, dropped |-> 0, exit |-> "open"]
    ELSE ScanLines(file.lines, 0, 0, 0)

(***************************************************************************)
(* Socket-table inputs.  A row carries, beside its text, the numbers the   *)
(* text was written from (tx, rx, drops), so that what the parser returns  *)
(* can be compared with them.                                              *)
(***************************************************************************)
HeaderLine == <<" ", " ", "s", "l", " ", "l", "o", "c", "a", "l", " ", "r", "e", "m", " ",
                "s", "t", " ", "t", "x", ":", "r", "x", " ", "d", "r", "o", "p", "s">>

\* a socket row with the given field 4 and field 12, the other fields fixed
RowText(f4, f12) ==
    <<" ", " ">> \o
    JoinSp(<< <<"0", ":">>, <<"0", "0", ":", "1", "F", "B", "D">>, <<"0", "0", ":", "0", "0">>,
              <<"0", "7">>, f4, <<"0", "0", ":", "0", "0">>, <<"0", "0">>, <<"9", "9", "8">>,
              <<"0">>, <<"2", "1">>, <<"2">>, <<"0", "0">>, f12 >>)

Row(f4, f12, tx, rx, drops) ==
    [text |-> RowText(f4, f12), kind |-> "good", tx |-> tx, rx |-> rx, drops |-> drops]
BadRow(text, kind) == [text |-> text, kind |-> kind, tx |-> 0, rx |-> 0, drops |-> 0]

Row5   == Row(<<"0", "A", ":", "0", "0", "0", "0">>, <<"5">>, 10, 0, 5)
Row8   == Row(<<"0", "0", ":", "1", "f">>, <<"8">>, 0, 31, 8)
Row40  == Row(<<"0", "3", ":", "0", "2">>, <<"4", "0">>, 3, 2, 40)
Row45  == Row(<<"0", "3", ":", "0", "4">>, <<"4", "5">>, 3, 4, 45)
Row60  == Row(<<"0", "0", ":", "0", "1">>, <<"6", "0">>, 0, 1, 60)

\* rows on which a conversion fails
RowBadHex == BadRow(RowText(<<"0", "0", ":", "0", "G">>, <<"1">>), "malformed")
RowBadDec == BadRow(RowText(<<"0", "1", ":", "0", "1">>, <<"1", "x">>), "malformed")
\* rows on which an index is out of range
RowShort   == BadRow(JoinSp(<< <<"0", ":">>, <<"0", "0", ":", "1", "F">>, <<"0", "0", ":", "0", "0">>,
                               <<"0", "7">>, <<"0", "0", ":", "0", "2">> >>), "short")
RowNoColon == BadRow(RowText(<<"0", "0", "0", "0">>, <<"1">>), "nocolon")
RowEmpty   == BadRow(<<>>, "short")

\* rows whose parsed queue element is hexadecimal but above 0x7FFFFFFF, and the
\* row that holds exactly 0x7FFFFFFF
RowOver == BadRow(RowText(<<"0", "0", ":", "8", "0", "0", "0", "0", "0", "0", "0">>, <<"7">>), "range")
RowWide == BadRow(RowText(<<"0", "0", ":", "1", "0", "0", "0", "0", "0", "0", "1", "F">>, <<"9">>), "range")
RowMax  == Row(<<"0", "0", ":", "7", "F", "F", "F", "F", "F", "F", "F">>, <<"2">>, 0, MaxInt32, 2)

GoodRows == {Row5, Row8, Row40}
MalformedRows == {RowBadHex, RowBadDec}
PanicRows == {RowShort, RowNoColon, RowEmpty}
RangeRows == {RowOver, RowWide}
RowCatalogue == GoodRows \cup MalformedRows \cup PanicRows \cup RangeRows

RowSeqs(S, n) == UNION {[1..k -> S] : k \in 0..n}

\* the file of a table: one header line, then the rows
TableFile(rows) ==
    [open |-> TRUE, lines |-> <<HeaderLine>> \o [i \in 1..Len(rows) |-> rows[i].text]]
Unopenable == [open |-> FALSE, lines |-> <<>>]
EmptyFile == [open |-> TRUE, lines |-> <<>>]

RECURSIVE SumOf(_, _)
SumOf(rows, f) == IF rows = <<>> THEN 0 ELSE rows[1][f] + SumOf(Tail(rows), f)

(***************************************************************************)
(* Process discovery: findPIDByName, walkProcFSStatus                      *)
(***************************************************************************)
ProcPath(dir, file) == <<"/", "p", "r", "o", "c", "/">> \o dir \o <<"/">> \o file
StatusName == <<"s", "t", "a", "t", "u", "s">>
StatusText(name) == <<"N", "a", "m", "e", ":", "\t">> \o name \o <<"\n", "S", ":", "R", "\n">>

\* the requested process name and another one
WantedName == <<"s", "d">>
OtherName == <<"s", "h">>

\* One callback invocation of filepath.Walk:
\*   path: the path, err: Walk hands the callback an error for this path,
\*   readErr: ioutil.ReadFile of the path fails, content: the file's bytes.
Entry(path, err, readErr, content) ==
    [path |-> path, err |-> err, readErr |-> readErr, content |-> content]

Status10   == Entry(ProcPath(<<"1", "0">>, StatusName), FALSE, FALSE, StatusText(WantedName))
Status20   == Entry(ProcPath(<<"2", "0">>, StatusName), FALSE, FALSE, StatusText(WantedName))
Status30   == Entry(ProcPath(<<"3", "0">>, StatusName), FALSE, FALSE, StatusText(OtherName))
\* lstat failed: the callback is handed the error
StatErr40  == Entry(ProcPath(<<"4", "0">>, StatusName), TRUE, FALSE, <<>>)
\* the process exited between the listing and the read
Gone50     == Entry(ProcPath(<<"5", "0">>, StatusName), FALSE, TRUE, <<>>)
\* a record without a name line
NoName60   == Entry(ProcPath(<<"6", "0">>, StatusName), FALSE, FALSE, <<>>)
\* not a status file
Cmdline10  == Entry(ProcPath(<<"1", "0">>, <<"c", "m", "d">>), FALSE, FALSE, <<"s", "d">>)

EntryCatalogue == {Status10, Status20, Status30, StatErr40, Gone50, NoName60, Cmdline10}

\* scan orders: sequences of distinct entries
Listings(n) ==
    {l \in UNION {[1..k -> EntryCatalogue] : k \in 0..n} :
        \A i, j \in 1..Len(l) : i # j => l[i] # l[j]}

IsStatusPath(path) ==
    /\ Contains(path, <<"/">> \o StatusName)
    /\ Contains(path, <<"/", "p", "r", "o", "c", "/">>)
    /\ Count(path, "/") = 3

\* walkProcFSStatus(path, info, err) with the package variables as they are:
\* ret is "nil", "err" (an error is returned to Walk) or "panic";
\* pid is targetPID after the call.
walkProcFSStatus(e, procName, curPID) ==
    IF e.err THEN [ret |-> "nil", pid |-> curPID]
    ELSE IF IsStatusPath(e.path)
    THEN LET last == LastIndex(e.path, "/")
             pid  == Atoi(Slice(e.path, 6, last))
             nl   == IndexByte(e.content, "\n")
             name == Slice(e.content, 6, nl)
         IN  IF ~SliceOK(e.path, 6, last) THEN [ret |-> "panic", pid |-> curPID]
             ELSE IF pid.err THEN [ret |-> "err", pid |-> curPID]
             ELSE IF e.readErr THEN [ret |-> "err", pid |-> curPID]
             ELSE IF ~SliceOK(e.content, 6, nl) THEN [ret |-> "panic", pid |-> curPID]
             ELSE IF name = procName THEN [ret |-> "nil", pid |-> Itoa(pid.val)]
             ELSE [ret |-> "nil", pid |-> curPID]
    ELSE [ret |-> "nil", pid |-> curPID]

\* findPIDByName, first statement
findPIDByName ==
    /\ pc = "find"
    /\ targetProcName' = args[2]
    /\ pc' = "walk"
    /\ UNCHANGED <<args, procfs, walkIdx, walkErr, targetPID, httpStarted>>
    /\ UNCHANGED loopVars /\ UNCHANGED harnessVars

\* filepath.Walk calls the callback on the next entry; an error it returns ends the walk
WalkStep ==
    /\ pc = "walk"
    /\ walkIdx < Len(procfs)
    /\ LET r == walkProcFSStatus(procfs[walkIdx + 1], targetProcName, targetPID)
       IN  /\ targetPID' = r.pid
           /\ walkIdx' = walkIdx + 1
           /\ pc' = CASE r.ret = "panic" -> "panic"
                      [] r.ret = "err" -> "walked"
                      [] OTHER -> "walk"
           /\ walkErr' = IF r.ret = "err" THEN "err" ELSE walkErr
    /\ UNCHANGED <<args, procfs, targetProcName, httpStarted>>
    /\ UNCHANGED loopVars /\ UNCHANGED harnessVars

\* filepath.Walk returns nil after the last entry
WalkEnd ==
    /\ pc = "walk"
    /\ walkIdx = Len(procfs)
    /\ walkErr' = "nil"
    /\ pc' = "walked"
    /\ UNCHANGED <<args, procfs, walkIdx, targetProcName, targetPID, httpStarted>>
    /\ UNCHANGED loopVars /\ UNCHANGED harnessVars

\* findPIDByName, the handling of Walk's result
findPIDByNameReturn ==
    /\ pc = "walked"
    /\ pc' = IF walkErr # "nil" /\ walkErr # "EOF" THEN "fatal" ELSE "check"
    /\ UNCHANGED <<args, procfs, walkIdx, walkErr, targetProcName, targetPID, httpStarted>>
    /\ UNCHANGED loopVars /\ UNCHANGED harnessVars

(***************************************************************************)
(* main                                                                    *)
(***************************************************************************)
ProgName == <<"x">>

\* the argument check
mainArgs ==
    /\ pc = "main"
    /\ pc' = IF Len(args) # 2 THEN "fatal" ELSE "find"
    /\ UNCHANGED <<args, procfs, walkIdx, walkErr, targetProcName, targetPID, httpStarted>>
    /\ UNCHANGED loopVars /\ UNCHANGED harnessVars

\* the test main makes of targetPID after findPIDByName
NotFound_Never(pid) == FALSE
NotFound(pid) == pid = <<>>

mainCheckPID ==
    /\ pc = "check"
    /\ pc' = IF NotFound(targetPID) THEN "fatal" ELSE "serve"
    /\ UNCHANGED <<args, procfs, walkIdx, walkErr, targetProcName, targetPID, httpStarted>>
    /\ UNCHANGED loopVars /\ UNCHANGED harnessVars

\* go serveHTTP(...); watchUDPBuffers(0, 0)
mainServe ==
    /\ pc = "serve"
    /\ httpStarted' = TRUE
    /\ lastDropped' = 0
    /\ lastDropped6' = 0
    /\ pc' = "parse"
    /\ UNCHANGED <<args, procfs, walkIdx, walkErr, targetProcName, targetPID>>
    /\ UNCHANGED <<queuedUDP, droppedUDP, queuedUDP6, droppedUDP6, diff, label,
                   udpBufferQueued, udpBufferDropped, ticks, parsed, hist>>
    /\ UNCHANGED harnessVars

(***************************************************************************)
(* The sampling loop, watchUDPBuffers                                      *)
(***************************************************************************)
Labels == {"udp", "udp6"}

\* what /proc/<pid>/net/udp and /proc/<pid>/net/udp6 may hold when a tick reads them
UdpFiles == {TableFile(<<Row5>>), TableFile(<<Row8>>), TableFile(<<Row40>>),
             TableFile(<<Row45>>), TableFile(<<Row40, Row60>>),
             TableFile(<<Row5, RowBadDec>>), TableFile(<<Row5, RowShort>>)}
Udp6Files == {Unopenable, TableFile(<<Row8>>), TableFile(<<RowNoColon>>)}

\* what parseProcfsNetFile returns on each of them
ParseOf == [f \in UdpFiles \cup Udp6Files |-> parseProcfsNetFile(f)]

\* diff := dropped - last; if diff < 0 { diff = 0; dropped = last }
reconcile_NoClamp(dropped, last) == [diff |-> dropped - last, dropped |-> dropped]
reconcile_Rebase(dropped, last) ==
    IF dropped - last < 0 THEN [diff |-> 0, dropped |-> dropped]
    ELSE [diff |-> dropped - last, dropped |-> dropped]
reconcile_NoSubtract(dropped, last) ==
    IF dropped - last < 0 THEN [diff |-> 0, dropped |-> last]
    ELSE [diff |-> dropped, dropped |-> dropped]
reconcile(dropped, last) ==
    IF dropped - last < 0 THEN [diff |-> 0, dropped |-> last]
    ELSE [diff |-> dropped - last, dropped |-> dropped]

\* one history record per reconcile: the total parse returned and how it
\* ended, the stored prior total, the delta added, the baseline kept for the
\* next tick and the counter before and after
HistRec(p, prior, r, before) ==
    [total |-> p.dropped, exit |-> p.exit, prior |-> prior, delta |-> r.diff,
     base |-> r.dropped, before |-> before, after |-> before + r.diff]

\* "/proc/" + targetPID + "/net/udp" and "/proc/" + targetPID + "/net/udp6"
NetPath(proto) ==
    Concat(<< <<"/", "p", "r", "o", "c", "/">>, targetPID, <<"/", "n", "e", "t", "/">>, proto >>)
UdpPath == NetPath(<<"u", "d", "p">>)
Udp6Path == NetPath(<<"u", "d", "p", "6">>)

\* queuedUDP, droppedUDP := parseProcfsNetFile(".../net/udp"); label := "udp"
ParseUDP ==
    /\ pc = "parse"
    /\ ticks < MaxTicks
    /\ \E f \in UdpFiles :
         LET r == ParseOf[f]
         IN  /\ parsed' = [parsed EXCEPT !["udp"] = r]
             /\ IF r.exit = "panic"
                THEN pc' = "panic" /\ UNCHANGED <<queuedUDP, droppedUDP, label>>
                ELSE /\ pc' = "set"
                     /\ queuedUDP' = r.queued
                     /\ droppedUDP' = r.dropped
                     /\ label' = "udp"
    /\ ticks' = ticks + 1
    /\ UNCHANGED <<lastDropped, lastDropped6, queuedUDP6, droppedUDP6, diff,
                   udpBufferQueued, udpBufferDropped, hist>>
    /\ UNCHANGED mainRest /\ UNCHANGED harnessVars

\* (variant: the gauge accumulates instead of being overwritten)
SetQueuedUDP_Accumulate ==
    /\ pc = "set"
    /\ udpBufferQueued' = [udpBufferQueued EXCEPT ![label] = @ + queuedUDP]
    /\ pc' = "add"
    /\ UNCHANGED <<lastDropped, lastDropped6, queuedUDP, droppedUDP, queuedUDP6,
                   droppedUDP6, diff, label, udpBufferDropped, ticks, parsed, hist>>
    /\ UNCHANGED mainRest /\ UNCHANGED harnessVars

\* udpBufferQueued.WithLabelValues(label).Set(float64(queuedUDP))
SetQueuedUDP ==
    /\ pc = "set"
    /\ udpBufferQueued' = [udpBufferQueued EXCEPT ![label] = queuedUDP]
    /\ pc' = "add"
    /\ UNCHANGED <<lastDropped, lastDropped6, queuedUDP, droppedUDP, queuedUDP6,
                   droppedUDP6, diff, label, udpBufferDropped, ticks, parsed, hist>>
    /\ UNCHANGED mainRest /\ UNCHANGED harnessVars

\* diff := droppedUDP - lastDropped; the clamp; udpBufferDropped...Add(float64(diff))
AddDroppedUDP ==
    /\ pc = "add"
    /\ LET r == reconcile(droppedUDP, lastDropped)
       IN  /\ diff' = r.diff
           /\ droppedUDP' = r.dropped
           /\ udpBufferDropped' = [udpBufferDropped EXCEPT ![label] = @ + r.diff]
           /\ hist' = [hist EXCEPT ![label] =
                         Append(@, HistRec(parsed[label], lastDropped, r, udpBufferDropped[label]))]
    /\ pc' = "parse6"
    /\ UNCHANGED <<lastDropped, lastDropped6, queuedUDP, queuedUDP6, droppedUDP6,
                   label, udpBufferQueued, ticks, parsed>>
    /\ UNCHANGED mainRest /\ UNCHANGED harnessVars

\* (variant: label is left at "udp" for the udp6 half of the tick)
ParseUDP6_StaleLabel ==
    /\ pc = "parse6"
    /\ \E f \in Udp6Files :
         LET r == ParseOf[f]
         IN  /\ parsed' = [parsed EXCEPT !["udp6"] = r]
             /\ IF r.exit = "panic"
                THEN pc' = "panic" /\ UNCHANGED <<queuedUDP6, droppedUDP6>>
                ELSE /\ pc' = "set6"
                     /\ queuedUDP6' = r.queued
                     /\ droppedUDP6' = r.dropped
    /\ UNCHANGED <<lastDropped, lastDropped6, queuedUDP, droppedUDP, diff, label,
                   udpBufferQueued, udpBufferDropped, ticks, hist>>
    /\ UNCHANGED mainRest /\ UNCHANGED harnessVars

\* queuedUDP6, droppedUDP6 := parseProcfsNetFile(".../net/udp6"); label = "udp6"
ParseUDP6 ==
    /\ pc = "parse6"
    /\ \E f \in Udp6Files :
         LET r == ParseOf[f]
         IN  /\ parsed' = [parsed EXCEPT !["udp6"] = r]
             /\ IF r.exit = "panic"
                THEN pc' = "panic" /\ UNCHANGED <<queuedUDP6, droppedUDP6, label>>
                ELSE /\ pc' = "set6"
                     /\ queuedUDP6' = r.queued
                     /\ droppedUDP6' = r.dropped
                     /\ label' = "udp6"
    /\ UNCHANGED <<lastDropped, lastDropped6, queuedUDP, droppedUDP, diff,
                   udpBufferQueued, udpBufferDropped, ticks, hist>>
    /\ UNCHANGED mainRest /\ UNCHANGED harnessVars

SetQueuedUDP6 ==
    /\ pc = "set6"
    /\ udpBufferQueued' = [udpBufferQueued EXCEPT ![label] = queuedUDP6]
    /\ pc' = "add6"
    /\ UNCHANGED <<lastDropped, lastDropped6, queuedUDP, droppedUDP, queuedUDP6,
                   droppedUDP6, diff, label, udpBufferDropped, ticks, parsed, hist>>
    /\ UNCHANGED mainRest /\ UNCHANGED harnessVars

AddDroppedUDP6 ==
    /\ pc = "add6"
    /\ LET r == reconcile(droppedUDP6, lastDropped6)
       IN  /\ diff' = r.diff
           /\ droppedUDP6' = r.dropped
           /\ udpBufferDropped' = [udpBufferDropped EXCEPT ![label] = @ + r.diff]
           /\ hist' = [hist EXCEPT ![label] =
                         Append(@, HistRec(parsed[label], lastDropped6, r, udpBufferDropped[label]))]
    /\ pc' = "sleep"
    /\ UNCHANGED <<lastDropped, lastDropped6, queuedUDP, droppedUDP, queuedUDP6,
                   label, udpBufferQueued, ticks, parsed>>
    /\ UNCHANGED mainRest /\ UNCHANGED harnessVars

\* (variant: the loop looks the process up again after every tick)
SleepAndStore_Rediscover ==
    /\ pc = "sleep"
    /\ lastDropped' = droppedUDP
    /\ lastDropped6' = droppedUDP6
    /\ pc' = "find"
    /\ walkIdx' = 0
    /\ targetPID' = <<>>
    /\ UNCHANGED <<queuedUDP, droppedUDP, queuedUDP6, droppedUDP6, diff, label,
                   udpBufferQueued, udpBufferDropped, ticks, parsed, hist>>
    /\ UNCHANGED <<args, procfs, walkErr, targetProcName, httpStarted>>
    /\ UNCHANGED harnessVars

\* (variant: the udp6 prior total is not stored)
SleepAndStore_OnlyUDP ==
    /\ pc = "sleep"
    /\ lastDropped' = droppedUDP
    /\ pc' = "parse"
    /\ UNCHANGED <<lastDropped6, queuedUDP, droppedUDP, queuedUDP6, droppedUDP6, diff,
                   label, udpBufferQueued, udpBufferDropped, ticks, parsed, hist>>
    /\ UNCHANGED mainRest /\ UNCHANGED harnessVars

\* time.Sleep(10 * time.Second); lastDropped = droppedUDP; lastDropped6 = droppedUDP6
SleepAndStore ==
    /\ pc = "sleep"
    /\ lastDropped' = droppedUDP
    /\ lastDropped6' = droppedUDP6
    /\ pc' = "parse"
    /\ UNCHANGED <<queuedUDP, droppedUDP, queuedUDP6, droppedUDP6, diff, label,
                   udpBufferQueued, udpBufferDropped, ticks, parsed, hist>>
    /\ UNCHANGED mainRest /\ UNCHANGED harnessVars

(***************************************************************************)
(* The parser applied to one file (harness for parseProcfsNetFile)         *)
(***************************************************************************)
NoResult == [queued |-> 0, dropped |-> 0, exit |-> "none"]

\* a parser input: a table of rows, a file that cannot be opened, or an empty file
ParserInputs ==
    {[kind |-> "table", rows |-> rs] : rs \in RowSeqs(RowCatalogue, MaxRows)}
      \cup {[kind |-> "unopenable", rows |-> <<>>], [kind |-> "empty", rows |-> <<>>]}
      \cup {[kind |-> "table", rows |-> <<RowMax>>], [kind |-> "table", rows |-> <<Row5, RowMax>>]}

FileOf(in) ==
    CASE in.kind = "unopenable" -> Unopenable
      [] in.kind = "empty" -> EmptyFile
      [] OTHER -> TableFile(in.rows)

ApplyParse ==
    /\ pc = "harness"
    /\ output = NoResult
    /\ output' = parseProcfsNetFile(FileOf(input))
    /\ UNCHANGED <<input, scraped>> /\ UNCHANGED mainVars /\ UNCHANGED loopVars

(***************************************************************************)
(* The metrics endpoint: go serveHTTP(":8125", "/metrics")                  *)
(***************************************************************************)
\* (variant: a read returns the loop's local total instead of the counter)
Scrape_ReadsLocal ==
    /\ httpStarted /\ pc \in {"parse", "set", "add", "parse6", "set6", "add6", "sleep"}
    /\ \E l \in Labels :
         scraped' = [scraped EXCEPT ![l] = IF l = "udp" THEN droppedUDP ELSE droppedUDP6]
    /\ UNCHANGED <<input, output>> /\ UNCHANGED mainVars /\ UNCHANGED loopVars

\* one read of a counter by the handler registered at /metrics: it runs in the
\* goroutine of serveHTTP, between any two steps of the loop, and takes the
\* current value of one counter (0 while the loop has not touched it)
Scrape ==
    /\ httpStarted /\ pc \in {"parse", "set", "add", "parse6", "set6", "add6", "sleep"}
    /\ \E l \in Labels : scraped' = [scraped EXCEPT ![l] = udpBufferDropped[l]]
    /\ UNCHANGED <<input, output>> /\ UNCHANGED mainVars /\ UNCHANGED loopVars

\* log.Fatal(http.ListenAndServe(listenAddress, nil)): the listener fails
serveHTTPFatal ==
    /\ httpStarted /\ pc \in {"parse", "set", "add", "parse6", "set6", "add6", "sleep"}
    /\ pc' = "fatal"
    /\ UNCHANGED mainRest /\ UNCHANGED loopVars /\ UNCHANGED harnessVars

\* the start of a tick, within the bound of the specification with the endpoint
ServeTick == ticks < MaxServeTicks /\ ParseUDP

\* one step of the sampling loop
LoopStep ==
    \/ ServeTick \/ SetQueuedUDP \/ AddDroppedUDP
    \/ ParseUDP6 \/ SetQueuedUDP6 \/ AddDroppedUDP6 \/ SleepAndStore

(***************************************************************************)
(* Specifications                                                          *)
(***************************************************************************)
NoHist == [l \in Labels |-> <<>>]

LoopInit ==
    /\ lastDropped = 0 /\ lastDropped6 = 0
    /\ queuedUDP = 0 /\ droppedUDP = 0 /\ queuedUDP6 = 0 /\ droppedUDP6 = 0
    /\ diff = 0 /\ label = ""
    /\ udpBufferQueued = [l \in Labels |-> 0]
    /\ udpBufferDropped = [l \in Labels |-> 0]
    /\ ticks = 0
    /\ parsed = [l \in Labels |-> NoResult]
    /\ hist = NoHist

\* the scan orders the whole program is run on
MainListings == {<<Status30, Cmdline10>>, <<StatErr40, Status10>>, <<Gone50, Status10>>}

\* the whole program, from main
Init ==
    /\ pc = "main"
    /\ args \in {<<ProgName>>, <<ProgName, WantedName>>}
    /\ procfs \in MainListings
    /\ walkIdx = 0 /\ walkErr = "nil"
    /\ targetProcName = <<>> /\ targetPID = <<>>
    /\ httpStarted = FALSE
    /\ LoopInit
    /\ input = [kind |-> "unopenable", rows |-> <<>>] /\ output = NoResult
    /\ scraped = [l \in Labels |-> 0]

Next ==
    \/ mainArgs \/ findPIDByName \/ WalkStep \/ WalkEnd \/ findPIDByNameReturn
    \/ mainCheckPID \/ mainServe
    \/ ParseUDP \/ SetQueuedUDP \/ AddDroppedUDP
    \/ ParseUDP6 \/ SetQueuedUDP6 \/ AddDroppedUDP6 \/ SleepAndStore

Spec == Init /\ [][Next]_vars

\* findPIDByName alone, on every scan order within the bound
InitLocate ==
    /\ pc = "find"
    /\ args = <<ProgName, WantedName>>
    /\ procfs \in Listings(MaxEntries)
    /\ walkIdx = 0 /\ walkErr = "nil"
    /\ targetProcName = <<>> /\ targetPID = <<>>
    /\ httpStarted = FALSE
    /\ LoopInit
    /\ input = [kind |-> "unopenable", rows |-> <<>>] /\ output = NoResult
    /\ scraped = [l \in Labels |-> 0]

NextLocate == findPIDByName \/ WalkStep \/ WalkEnd \/ findPIDByNameReturn

SpecLocate == InitLocate /\ [][NextLocate]_vars

\* parseProcfsNetFile alone, on every input within the bound
InitParse ==
    /\ pc = "harness"
    /\ args = <<ProgName, WantedName>>
    /\ procfs = <<>>
    /\ walkIdx = 0 /\ walkErr = "nil"
    /\ targetProcName = <<>> /\ targetPID = <<>>
    /\ httpStarted = FALSE
    /\ LoopInit
    /\ input \in ParserInputs /\ output = NoResult
    /\ scraped = [l \in Labels |-> 0]

NextParse == ApplyParse

SpecParse == InitParse /\ [][NextParse]_vars

\* main from line 59 on, with the metrics endpoint running beside the loop
InitServe ==
    /\ pc = "serve"
    /\ args = <<ProgName, WantedName>>
    /\ procfs = <<StatErr40, Status10>>
    /\ walkIdx = 2 /\ walkErr = "nil"
    /\ targetProcName = WantedName /\ targetPID = <<"1", "0">>
    /\ httpStarted = FALSE
    /\ LoopInit
    /\ input = [kind |-> "unopenable", rows |-> <<>>] /\ output = NoResult
    /\ scraped = [l \in Labels |-> 0]

NextServe ==
    \/ mainServe
    \/ ServeTick \/ SetQueuedUDP \/ AddDroppedUDP
    \/ ParseUDP6 \/ SetQueuedUDP6 \/ AddDroppedUDP6 \/ SleepAndStore
    \/ Scrape \/ serveHTTPFatal

SpecServe == InitServe /\ [][NextServe]_vars

(***************************************************************************)
(* Properties of the sampling loop (Spec)                                  *)
(***************************************************************************)
LoopPcs == {"parse", "set", "add", "parse6", "set6", "add6", "sleep"}
FailExits == {"open", "queued", "dropped"}

\* the records of label l, and the totals of a run of them
H(l) == hist[l]
NonDecreasing(l, i, j) == \A k \in i..(j - 1) : H(l)[k].total <= H(l)[k + 1].total
\* the state right after the reconcile step of label l
JustReconciled(l) == pc = (IF l = "udp" THEN "parse6" ELSE "sleep")
RECURSIVE DeltaSum(_, _, _)
DeltaSum(l, i, j) == IF i > j THEN 0 ELSE H(l)[i].delta + DeltaSum(l, i + 1, j)

\* C1: for each protocol the exported dropped counter never decreases: every
\* step leaves it at or above its value before the step, whatever totals the
\* parser returned, and every delta handed to Add is >= 0.
C1_CounterNeverDecreases ==
    [][/\ \A l \in Labels : udpBufferDropped'[l] >= udpBufferDropped[l]
       /\ (pc \in {"add", "add6"} => diff' >= 0)]_vars

\* a tick saw a total below the stored prior and the counter was already positive
C1_Witness ==
    \E l \in Labels : \E i \in 1..Len(H(l)) :
        /\ H(l)[i].total < H(l)[i].prior
        /\ H(l)[i].before > 0
        /\ H(l)[i].after = H(l)[i].before

\* C2 (as claimed): a tick that observes a total t_i below the stored prior
\* applies delta 0 and makes t_i the baseline; for totals 100, 40, 45 the tick
\* reporting 40 leaves baseline 40 and the tick reporting 45 applies delta 5.
C2_ResetRebasesToCurrent ==
    \A l \in Labels : \A i \in 1..Len(H(l)) :
        /\ (H(l)[i].exit = "return" /\ H(l)[i].total < H(l)[i].prior)
              => (H(l)[i].delta = 0 /\ H(l)[i].base = H(l)[i].total)
        /\ (/\ i + 2 <= Len(H(l))
            /\ H(l)[i].total = 100 /\ H(l)[i + 1].total = 40 /\ H(l)[i + 2].total = 45)
              => (/\ H(l)[i + 1].delta = 0 /\ H(l)[i + 1].base = 40
                  /\ H(l)[i + 2].delta = 5)

\* C2 (amended): a tick that observes a total below the stored prior applies
\* delta 0 and keeps the stored prior as the baseline, so the next tick's delta
\* is computed relative to the old prior; for totals 100, 40, 45 the tick
\* reporting 40 leaves baseline 100 and the tick reporting 45 applies delta 0.
C2_ResetKeepsPrior ==
    \A l \in Labels : \A i \in 1..Len(H(l)) :
        /\ H(l)[i].total < H(l)[i].prior
              => (/\ H(l)[i].delta = 0
                  /\ H(l)[i].base = H(l)[i].prior
                  /\ (i < Len(H(l)) => H(l)[i + 1].prior = H(l)[i].prior))
        /\ (/\ i + 2 <= Len(H(l))
            /\ H(l)[i].total = 100 /\ H(l)[i + 1].total = 40 /\ H(l)[i + 2].total = 45)
              => (/\ H(l)[i + 1].delta = 0 /\ H(l)[i + 1].base = 100
                  /\ H(l)[i + 2].delta = 0 /\ H(l)[i + 2].prior = 100)

\* three successive ticks reported 100, 40, 45
C2_Witness ==
    \E l \in Labels : \E i \in 1..Len(H(l)) :
        /\ i + 2 <= Len(H(l))
        /\ H(l)[i].total = 100 /\ H(l)[i + 1].total = 40 /\ H(l)[i + 2].total = 45
        /\ H(l)[i + 1].exit = "return" /\ H(l)[i + 2].exit = "return"

\* C3: over successive ticks i..j of a protocol whose totals are non-decreasing,
\* with the baseline equal to the total after tick i, every later tick applies
\* delta = current - prior and stores current as the new prior, and the deltas
\* of ticks i+1..j sum to total(j) - total(i); totals 5 then 8 give delta 3.
\* (The records of a protocol change only in its reconcile step, so the
\* windows are examined in the state each reconcile leaves.)
C3_DeltasSumToDifference ==
    \A l \in Labels : \A i \in 1..Len(H(l)) : \A j \in i..Len(H(l)) :
        (JustReconciled(l) /\ H(l)[i].base = H(l)[i].total /\ NonDecreasing(l, i, j))
          => /\ DeltaSum(l, i + 1, j) = H(l)[j].total - H(l)[i].total
             /\ H(l)[j].after = H(l)[i].after + (H(l)[j].total - H(l)[i].total)
             /\ \A k \in (i + 1)..j :
                   /\ H(l)[k].prior = H(l)[k - 1].total
                   /\ H(l)[k].delta = H(l)[k].total - H(l)[k].prior
                   /\ H(l)[k].base = H(l)[k].total
                   /\ H(l)[k].after = H(l)[k].before + H(l)[k].delta

\* ticks reporting 5, 8 and then a larger total, with baseline 5 after the first
C3_Witness ==
    \E l \in Labels : \E i \in 1..Len(H(l)) :
        /\ i + 2 <= Len(H(l))
        /\ H(l)[i].total = 5 /\ H(l)[i].base = 5
        /\ H(l)[i + 1].total = 8 /\ H(l)[i + 1].delta = 3
        /\ H(l)[i + 2].total > 8
        /\ DeltaSum(l, i + 1, i + 2) = H(l)[i + 2].total - 5

\* C4: a tick whose parse of a protocol fails (the file cannot be opened, or a
\* conversion of a row fails) adds 0 to that protocol's counter whatever the
\* stored prior total is, and the loop goes on: the loop only ever stops on a
\* parse that panicked, never on one that returned an error.
C4_FailedParseIsZeroDelta ==
    /\ \A l \in Labels : \A i \in 1..Len(H(l)) :
          H(l)[i].exit \in FailExits
            => /\ H(l)[i].total = 0
               /\ H(l)[i].delta = 0
               /\ H(l)[i].after = H(l)[i].before
    /\ (pc = "panic" => \E l \in Labels : parsed[l].exit = "panic")

\* a row failed to convert while the stored prior total was positive; the other
\* protocol was reconciled in the same tick and the next tick was reconciled too
C4_Witness ==
    \E i \in 1..Len(H("udp")) :
        /\ H("udp")[i].exit = "dropped"
        /\ H("udp")[i].prior > 0
        /\ Len(H("udp6")) >= i
        /\ Len(H("udp")) > i

\* C5 (as claimed): once the loop runs, no content of a socket table ever takes
\* it out of the Running state.
C5_LoopNeverTerminates ==
    httpStarted => pc \in LoopPcs

(***************************************************************************)
(* Properties of parseProcfsNetFile (SpecParse)                            *)
(***************************************************************************)
Applied == output.exit # "none"
AllGood(rows) == \A i \in 1..Len(rows) : rows[i].kind = "good"
\* the first row that is not well-formed is one on which a conversion fails
FirstBadIsMalformed(rows) ==
    \E k \in 1..Len(rows) :
        /\ rows[k].kind = "malformed"
        /\ \A i \in 1..(k - 1) : rows[i].kind = "good"

\* C6 (as claimed): on a header line followed by N >= 0 well-formed rows the
\* parser returns (sum of the hexadecimal values of the first element,
\* tx_queue, of field 4; sum of the decimal field 12); a single row with
\* field 4 = 0A:0000 and field 12 = 5 gives (10, 5).
C6_ParseSumsTxQueue ==
    (Applied /\ input.kind = "table" /\ AllGood(input.rows))
      => /\ output.exit = "return"
         /\ output.queued = SumOf(input.rows, "tx")
         /\ output.dropped = SumOf(input.rows, "drops")
         /\ (input.rows = <<Row5>> => (output.queued = 10 /\ output.dropped = 5))

\* C6 (amended): on a header line followed by N >= 0 well-formed rows the
\* parser returns (sum of the hexadecimal values of the second element,
\* rx_queue, of field 4; sum of the decimal field 12); the header contributes
\* nothing; a single row with field 4 = 0A:0000 and field 12 = 5 gives (0, 5).
C6_ParseSumsRxQueue ==
    (Applied /\ input.kind = "table" /\ AllGood(input.rows))
      => /\ output.exit = "return"
         /\ output.queued = SumOf(input.rows, "rx")
         /\ output.dropped = SumOf(input.rows, "drops")
         /\ (input.rows = <<Row5>> => (output.queued = 0 /\ output.dropped = 5))

\* two well-formed rows whose queue values and drop counts were summed
C6_Witness ==
    /\ Applied
    /\ input.kind = "table" /\ input.rows = <<Row8, Row40>>
    /\ output.queued = 33 /\ output.dropped = 48

\* C7: when the first row that is not well-formed is a row on which a
\* conversion fails (the parsed queue element is not hexadecimal, or the drop
\* field is not decimal), the parser returns exactly (0, 0): the sums of the
\* well-formed rows before it are discarded.
C7_MalformedRowDiscardsSums ==
    (Applied /\ input.kind = "table" /\ FirstBadIsMalformed(input.rows))
      => /\ output.exit \in {"queued", "dropped"}
         /\ output.queued = 0
         /\ output.dropped = 0

\* a well-formed row with non-zero values, then a row with a non-decimal drop field
C7_Witness ==
    /\ Applied
    /\ input.kind = "table" /\ input.rows = <<Row8, RowBadDec>>
    /\ SumOf(<<Row8>>, "rx") > 0 /\ SumOf(<<Row8>>, "drops") > 0
    /\ output.exit = "dropped"

\* the first row that is not well-formed holds a queue value above 0x7FFFFFFF
FirstBadIsRange(rows) ==
    \E k \in 1..Len(rows) :
        /\ rows[k].kind = "range"
        /\ \A i \in 1..(k - 1) : rows[i].kind = "good"

\* C16: the queue value of a row is parsed in the signed 32-bit range: when
\* the first row that is not well-formed holds a hexadecimal queue value above
\* 0x7FFFFFFF the call fails at the queue conversion and returns (0, 0), the
\* value is not wrapped or truncated into a sum; 0x7FFFFFFF itself is accepted.
C16_QueueOutOfRangeFails ==
    /\ (Applied /\ input.kind = "table" /\ FirstBadIsRange(input.rows))
          => /\ output.exit = "queued"
             /\ output.queued = 0
             /\ output.dropped = 0
    /\ (Applied /\ input.kind = "table" /\ input.rows \in {<<RowMax>>, <<Row5, RowMax>>})
          => /\ output.exit = "return"
             /\ output.queued = MaxInt32

\* a well-formed row with non-zero values, then a row whose queue is 0x80000000
C16_Witness ==
    /\ Applied
    /\ input.kind = "table" /\ input.rows = <<Row8, RowOver>>
    /\ SumOf(<<Row8>>, "rx") > 0 /\ SumOf(<<Row8>>, "drops") > 0
    /\ output.exit = "queued" /\ output.queued = 0 /\ output.dropped = 0

(***************************************************************************)
(* Properties of process discovery (SpecLocate) and of main (Spec)         *)
(***************************************************************************)
\* e is a readable status record whose name line holds the requested name
StatusEntries == {e \in EntryCatalogue : IsStatusPath(e.path)}
Matches(e) ==
    /\ ~e.err /\ ~e.readErr
    /\ e \in StatusEntries
    /\ e.content = StatusText(targetProcName)
\* e is a status record that cannot be read
Unreadable(e) ==
    /\ IsStatusPath(e.path)
    /\ (e.err \/ e.readErr \/ IndexByte(e.content, "\n") = -1)
\* the identifier an entry's path spells
PidText(e) == Slice(e.path, 6, LastIndex(e.path, "/"))
MatchIdx == {i \in 1..Len(procfs) : Matches(procfs[i])}
FirstMatch == CHOOSE i \in MatchIdx : \A j \in MatchIdx : i <= j
WalkOver == pc \notin {"main", "find", "walk"}

\* C8 (as claimed): when the scan has completed and one or more entries carry
\* the requested name, targetPID is the identifier of the first of them in scan
\* order.
C8_FirstMatchWins ==
    (pc = "check" /\ MatchIdx # {}) => targetPID = PidText(procfs[FirstMatch])

\* C9 (as claimed): an entry that cannot be read is skipped: the walk goes on
\* without an error, the program does not fail, and a matching entry of the
\* listing is found by the time the walk is over.
C9_UnreadableEntriesSkipped ==
    /\ \A i \in 1..walkIdx :
          Unreadable(procfs[i]) => (walkErr = "nil" /\ pc \notin {"fatal", "panic"})
    /\ (WalkOver /\ MatchIdx # {}) => targetPID # <<>>

\* C10: the metrics endpoint is started and a tick runs only after the walk has
\* visited every entry without error and left a non-empty targetPID taken from
\* a matching entry; and when no entry matches, the program is past discovery
\* only in the aborted state, with no endpoint started and no tick executed.
C10_DiscoveryBeforeSampling ==
    /\ (httpStarted \/ ticks > 0 \/ pc \in LoopPcs \/ pc = "panic")
          => /\ targetPID # <<>>
             /\ walkIdx = Len(procfs) /\ walkErr = "nil"
             /\ MatchIdx # {}
             /\ httpStarted
    /\ (MatchIdx = {} /\ pc \notin {"main", "find", "walk", "walked", "check"})
          => /\ pc = "fatal"
             /\ ~httpStarted /\ ticks = 0 /\ hist = NoHist
             /\ udpBufferDropped = [l \in Labels |-> 0]

\* the full enumeration found no entry with the requested name and main aborted
C10_Witness ==
    /\ pc = "fatal"
    /\ Len(args) = 2 /\ targetProcName = WantedName
    /\ Len(procfs) > 0 /\ walkIdx = Len(procfs) /\ walkErr = "nil"
    /\ MatchIdx = {}
    /\ ~httpStarted

(***************************************************************************)
(* Further properties of the sampling loop (Spec)                          *)
(***************************************************************************)
\* a tick has been completed and no later tick has touched label l's gauge yet
TickDone == pc = "sleep" \/ (pc = "parse" /\ ticks > 0)

\* C11: after every completed tick the queued gauge of each protocol equals the
\* queued total the parser returned for that protocol in that tick, which is 0
\* when the parse failed; the gauge is overwritten, so earlier ticks leave no
\* trace in it.  (For udp this already holds from its Set until the tick ends.)
C11_GaugeIsLastQueuedTotal ==
    /\ (TickDone \/ pc \in {"add", "parse6", "set6", "add6"})
          => /\ udpBufferQueued["udp"] = parsed["udp"].queued
             /\ (parsed["udp"].exit \in FailExits => udpBufferQueued["udp"] = 0)
    /\ (TickDone \/ pc = "add6")
          => /\ udpBufferQueued["udp6"] = parsed["udp6"].queued
             /\ (parsed["udp6"].exit \in FailExits => udpBufferQueued["udp6"] = 0)

\* the first tick read queue 31 for udp, the second tick's udp parse failed:
\* the udp gauge is back at 0 while the udp6 gauge shows 31
C11_Witness ==
    /\ pc = "sleep" /\ ticks = 2
    /\ H("udp")[1].total = 8
    /\ parsed["udp"].exit = "dropped"
    /\ udpBufferQueued["udp"] = 0
    /\ udpBufferQueued["udp6"] = 31

\* C12: once the loop runs, no step changes targetProcName or targetPID, the
\* loop never leaves for discovery again (it stays in the loop or panics), and
\* the two paths read by the ticks stay the ones built from the resolved pid.
C12_IdentityImmutable ==
    [][(pc \in LoopPcs)
         => (/\ targetPID' = targetPID
             /\ targetProcName' = targetProcName
             /\ walkIdx' = walkIdx
             /\ UdpPath' = UdpPath /\ Udp6Path' = Udp6Path
             /\ pc' \in (LoopPcs \cup {"panic"}))]_vars

\* two ticks are over, one with a failed parse and one that saw a total below
\* the stored prior, and the target is still pid 10
C12_Witness ==
    /\ pc = "parse" /\ ticks >= 2
    /\ targetPID = <<"1", "0">> /\ targetProcName = WantedName
    /\ UdpPath = <<"/", "p", "r", "o", "c", "/", "1", "0", "/", "n", "e", "t", "/", "u", "d", "p">>
    /\ \E i \in 1..Len(H("udp")) : H("udp")[i].exit \in FailExits
    /\ \E i \in 1..Len(H("udp6")) : H("udp6")[i].total < H("udp6")[i].prior

\* the number of ticks whose stored prior totals are in lastDropped, lastDropped6
Stored == IF pc = "parse" THEN ticks ELSE ticks - 1

\* C13: the steps of a tick run in one fixed order: udp is parsed, its gauge set
\* and its total reconciled, then the same for udp6, then the sleep.  Each
\* protocol is reconciled exactly once per tick (its record count follows the
\* tick count), the gauge is set before the reconcile, and the stored prior of
\* each protocol is replaced exactly once per tick, by the baseline that
\* tick's reconcile left, before the next tick's parse: each reconcile's prior
\* (records are only appended, so the newest is examined) is the baseline of
\* the record before it.
C13_FixedOrderOncePerTick ==
    /\ pc \in LoopPcs
          => /\ Len(H("udp")) = (IF pc \in {"set", "add"} THEN ticks - 1 ELSE ticks)
             /\ Len(H("udp6")) = (IF pc \in {"parse", "sleep"} THEN ticks ELSE ticks - 1)
             /\ lastDropped = (IF Stored = 0 THEN 0 ELSE H("udp")[Stored].base)
             /\ lastDropped6 = (IF Stored = 0 THEN 0 ELSE H("udp6")[Stored].base)
             /\ (pc = "add" => (label = "udp" /\ udpBufferQueued["udp"] = queuedUDP))
             /\ (pc = "add6" => (label = "udp6" /\ udpBufferQueued["udp6"] = queuedUDP6))
             /\ (pc = "sleep" => (droppedUDP = H("udp")[ticks].base
                                  /\ droppedUDP6 = H("udp6")[ticks].base))
    /\ \A l \in Labels :
          LET k == Len(H(l))
          IN  k >= 1 => H(l)[k].prior = (IF k = 1 THEN 0 ELSE H(l)[k - 1].base)

\* the third tick is about to start: both protocols were reconciled twice and
\* the stored priors are the second tick's baselines, which differ from the first's
C13_Witness ==
    /\ pc = "parse" /\ ticks = 2
    /\ Len(H("udp")) = 2 /\ Len(H("udp6")) = 2
    /\ lastDropped = H("udp")[2].base /\ H("udp")[2].base # H("udp")[1].base
    /\ lastDropped6 = H("udp6")[2].base /\ H("udp6")[2].base # H("udp6")[1].base

\* what one protocol owns: its gauge, its counter, its stored prior and its locals
UdpState == <<udpBufferQueued["udp"], udpBufferDropped["udp"], lastDropped, queuedUDP, droppedUDP>>
Udp6State == <<udpBufferQueued["udp6"], udpBufferDropped["udp6"], lastDropped6, queuedUDP6, droppedUDP6>>
ClampedDiff(total, prior) == IF total - prior < 0 THEN 0 ELSE total - prior

\* C14: the two protocols are reconciled independently: the parse, Set and
\* reconcile steps of udp leave the gauge, counter, stored prior and locals of
\* udp6 unchanged, and the steps of udp6 leave those of udp unchanged; the
\* delta a reconcile adds is determined by that protocol's own total and prior.
C14_ProtocolsIndependent ==
    [][/\ (pc \in {"parse", "set", "add"}) => (Udp6State' = Udp6State)
       /\ (pc \in {"parse6", "set6", "add6"}) => (UdpState' = UdpState)
       /\ (pc = "add") => (udpBufferDropped'["udp"] - udpBufferDropped["udp"]
                              = ClampedDiff(droppedUDP, lastDropped))
       /\ (pc = "add6") => (udpBufferDropped'["udp6"] - udpBufferDropped["udp6"]
                              = ClampedDiff(droppedUDP6, lastDropped6))]_vars

\* in its second tick udp failed to parse and added nothing, while udp6 in the
\* same tick added a positive delta; udp's counter still holds its first total
C14_Witness ==
    /\ pc = "sleep" /\ ticks = 2
    /\ H("udp")[2].exit \in FailExits /\ H("udp")[2].delta = 0
    /\ H("udp")[1].total = 40 /\ udpBufferDropped["udp"] = 40
    /\ H("udp6")[1].total = 0 /\ H("udp6")[2].delta = 8
    /\ udpBufferDropped["udp6"] = 8

RECURSIVE MaxTotal(_, _)
\* the largest droppedTotal among the first n records of label l, 0 if none
MaxTotal(l, n) ==
    IF n = 0 THEN 0
    ELSE LET m == MaxTotal(l, n - 1)
         IN  IF H(l)[n].total > m THEN H(l)[n].total ELSE m

\* C17: starting from stored priors 0 and counters 0, the exported counter of
\* each protocol equals the largest droppedTotal returned for it so far (0 if
\* none); once a tick is complete the stored prior equals it too (before the
\* store, the local that will be stored does).  The first tick therefore adds
\* the whole total it sees.
C17_CounterIsHighWaterMark ==
    /\ pc \in LoopPcs \cup {"panic"}
          => \A l \in Labels : udpBufferDropped[l] = MaxTotal(l, Len(H(l)))
    /\ pc = "parse"
          => /\ lastDropped = udpBufferDropped["udp"]
             /\ lastDropped6 = udpBufferDropped["udp6"]
    /\ pc = "sleep"
          => /\ droppedUDP = udpBufferDropped["udp"]
             /\ droppedUDP6 = udpBufferDropped["udp6"]
    /\ \A l \in Labels : Len(H(l)) >= 1
          => /\ H(l)[1].prior = 0 /\ H(l)[1].before = 0
             /\ H(l)[1].delta = H(l)[1].total

\* the first tick added the pre-existing total 100 at once, a later tick saw
\* only 40: stored prior and counter are both still 100
C17_Witness ==
    /\ pc = "parse" /\ ticks >= 2
    /\ H("udp")[1].total = 100 /\ H("udp")[1].delta = 100
    /\ H("udp")[Len(H("udp"))].total = 40
    /\ lastDropped = 100 /\ udpBufferDropped["udp"] = 100

\* records k, k+1, k+2 of label l are a good total a, a failed parse and a
\* good total b >= a
FailBetween(l, k) ==
    /\ k >= 1 /\ k + 2 <= Len(H(l))
    /\ H(l)[k].exit = "return"
    /\ H(l)[k + 1].exit \in FailExits
    /\ H(l)[k + 2].exit = "return"
    /\ H(l)[k + 2].total >= H(l)[k].total
Increase(l, k) == H(l)[k + 2].after - H(l)[k].after

LoopCanStep == pc \in LoopPcs /\ (pc = "parse" => ticks < MaxServeTicks)

\* C15: reads of the counters interleave with the loop at any point between
\* its steps and need no coordination: the value a read returns for a protocol
\* is 0 (nothing added yet) or the counter value after one of that protocol's
\* completed Adds, it is never below the value an earlier read returned, a read
\* changes nothing the loop uses, and wherever the loop stands its next step
\* is enabled, before and after any read.
C15_ReadsSeeCompletedUpdates ==
    [][/\ \A l \in Labels :
             /\ scraped'[l] >= scraped[l]
             /\ \/ scraped'[l] = 0
                \/ \E i \in 1..Len(hist'[l]) : hist'[l][i].after = scraped'[l]
       /\ (scraped' # scraped) => (UNCHANGED mainVars /\ UNCHANGED loopVars)
       /\ LoopCanStep => ENABLED LoopStep]_vars

\* a read in the middle of the second tick: udp's counter was read after its
\* second Add, udp6's before its second Add
C15_Witness ==
    /\ pc = "set6" /\ ticks = 2
    /\ Len(H("udp")) = 2 /\ H("udp")[1].after = 5 /\ H("udp")[2].after = 40
    /\ scraped["udp"] = 40
    /\ Len(H("udp6")) = 1 /\ scraped["udp6"] = H("udp6")[1].after
    /\ scraped["udp6"] = 8

====
